---------------------------- MODULE Spec2Model ----------------------------
(***************************************************************************)
(* Model of the ingestion engine of src/src/pipeline.py: the command-line  *)
(* entry (__main__), batch_mode, watch_mode, MRIFileHandler.on_created and *)
(* process_single_file, together with the path checks of                   *)
(* src/src/utils.py:load_nifti that decide whether a run fails.            *)
(*                                                                         *)
(* File names are sequences of tokens in which "." is a token of its own,  *)
(* so that pathlib's suffix/stem, str.endswith and the glob pattern are    *)
(* computed on the name and not assumed.                                   *)
(*                                                                         *)
(* Threads: the main thread (pc), and watchdog's observer thread, which    *)
(* takes events from its queue one at a time and calls on_created (hpc).   *)
(* The environment creates, deletes and appends to files of the input      *)
(* directory.                                                              *)
(***************************************************************************)
EXTENDS Naturals, Sequences, FiniteSets

\* ------------------------------------------------------------------ bounds
\* Most creation operations the environment performs in one execution.
MaxEvents == 2
\* Most removals the environment performs in one execution.
MaxDeletes == 1
\* Largest file size (in blocks) the environment writes.
MaxSize == 2
\* Most times the process is killed and started again.
MaxKills == 1
\* time.sleep(2) of on_created, in seconds.
SleepSeconds == 2

\* ------------------------------------------------------------------- names
F1 == <<"a", ".", "nii">>
F2 == <<"b", ".", "nii", ".", "gz">>
F3 == <<"c", ".", "nii", ".", "txt">>
D1 == <<"dicom">>

\* The directory entries the environment may create in the input directory.
Names == {F1, F2, F3, D1}

\* event.is_directory / a series directory as opposed to a single file.
IsDir(n) == n = D1

NoFile == <<>>

DotIdx(n) == {i \in 1..Len(n) : n[i] = "."}

LastDot(n) == CHOOSE i \in DotIdx(n) : \A j \in DotIdx(n) : j <= i

\* pathlib: the name has a suffix when its last dot is neither its first
\* nor its last character.
HasSuffix(n) == DotIdx(n) # {} /\ 1 < LastDot(n) /\ LastDot(n) < Len(n)

\* Path.suffix
Suffix(n) == IF HasSuffix(n) THEN SubSeq(n, LastDot(n), Len(n)) ELSE <<>>

\* Variant that keeps the whole file name: Path.name instead of Path.stem.
Stem_FullName(n) == n

\* Path.stem
Stem(n) == IF HasSuffix(n) THEN SubSeq(n, 1, LastDot(n) - 1) ELSE n

\* str.endswith
EndsWith(n, s) == Len(n) >= Len(s) /\ SubSeq(n, Len(n) - Len(s) + 1, Len(n)) = s

\* Faulty variant: only the .nii suffix is accepted.
Recognized_NiiOnly(n) == Suffix(n) = <<".", "nii">>

\* on_created's filter: suffix == '.nii' or name.endswith('.nii.gz')
Recognized(n) == Suffix(n) = <<".", "nii">> \/ EndsWith(n, <<".", "nii", ".", "gz">>)

\* input_dir.glob('*.nii*'): the name holds ".nii" somewhere.
GlobMatch(n) == \E i \in DotIdx(n) : i < Len(n) /\ n[i + 1] = "nii"

\* load_nifti's extension check: suffix in ['.nii', '.gz']
LoadSuffixOk(n) == Suffix(n) \in {<<".", "nii">>, <<".", "gz">>}

\* output_dir / f"{input_file.stem}_skull_stripped.nii.gz"
OutputFile(n) == Stem(n) \o <<"_skull_stripped", ".", "nii", ".", "gz">>

\* output_dir / f"{input_file.stem}_quality_report.txt"
ReportFile(n) == Stem(n) \o <<"_quality_report", ".", "txt">>

\* The outcome markers of the specification (section 6): hidden names derived
\* from the input name with a .processed or .error tag.  No code writes them.
ProcessedMarker(n) == <<".">> \o n \o <<".", "processed">>
ErrorMarker(n) == <<".">> \o n \o <<".", "error">>

IsMarker(x) == \E n \in Names : x \in {ProcessedMarker(n), ErrorMarker(n)}
Markers(dir) == {x \in dir : IsMarker(x)}
HasOutcome(n, dir) == ProcessedMarker(n) \in dir \/ ErrorMarker(n) \in dir

\* Marker contents an output directory may hold when the process starts.
InitialMarkers == { {}, {ProcessedMarker(F2), ErrorMarker(F3)} }

\* Contents of the input directory when the watcher starts.
WatchInitialDirs == { {}, {F1}, {F1, F3} }

\* Further names a directory handed to the functions of utils.py may hold.
G1 == <<"a", ".", "nii", ".", "gz">>
G2 == <<"a", ".", "nii", ".", "nii">>
G3 == <<"a", ".", "tar", ".", "gz">>

UtilNames == {F1, F2, F3, G1, G2, G3}

\* What the docstring and the error message of load_nifti call a NIFTI file
\* name: one that ends in .nii or .nii.gz.
NiftiName(n) == EndsWith(n, <<".", "nii">>) \/ EndsWith(n, <<".", "nii", ".", "gz">>)

\* ------------------------------------------------------------------ images
\* Largest number of array dimensions of an image handed to validate_image_data.
MaxNdim == 4
\* Largest number of elements of such an image.
MaxVoxels == 1
\* validate_image_data: img_data.data.ndim != 3
RequiredNdim == 3

\* An image as validate_image_data sees it: the array's ndim and size, and
\* whether np.isfinite(data).all() holds, which it does of an empty array.
Images ==
    { i \in [ndim : 1..MaxNdim, size : 0..MaxVoxels, finite : BOOLEAN] :
        i.size = 0 => i.finite }

NoImage == [ndim |-> RequiredNdim, size |-> 0, finite |-> TRUE]

NoCall == [fn |-> "none", path |-> NoFile, img |-> NoImage, out |-> "none",
           decoded |-> FALSE]

\* ---------------------------------------------------------------- sequences
RECURSIVE SetToSeqs(_)
\* Every ordering of a finite set: the order of a directory listing is the
\* file system's.
SetToSeqs(S) ==
    IF S = {} THEN {<<>>}
    ELSE UNION { {<<x>> \o s : s \in SetToSeqs(S \ {x})} : x \in S }

Range(s) == {s[i] : i \in 1..Len(s)}

\* ------------------------------------------------------------------- state
VARIABLES
    args,          \* parsed command line: watch flag, whether the paths exist, and
                   \* whether --output-dir names the input directory
    pc,            \* position of the main thread
    exitCode,      \* "running", or the process's exit status
    inputDir,      \* names present in the input directory
    size,          \* size of each file of the input directory
    outputDir,     \* names present in the output directory
    input_files,   \* the listing taken by batch_mode / watch_mode
    idx,           \* index of the listing's file being processed
    success_count, \* batch_mode's counters
    fail_count,
    cur,           \* the file process_single_file is working on
    stage,         \* the stage process_single_file is at
    observer,      \* "none", "running", "stopped"
    evq,           \* the observer's queue of creation events
    hpc,           \* position of the observer thread in on_created
    hfile,         \* src_path of the event being handled
    slept,         \* seconds of time.sleep(2) that have passed
    processing,    \* MRIFileHandler.processing
    processed,     \* MRIFileHandler.processed
    nCreated,      \* creations the environment has performed
    nDeleted,      \* removals the environment has performed
    overlapped,    \* history: paths created again while an event for them was pending
    kills,         \* history: the file being run, and the runs so far, at each kill
    stdout,        \* what sys.stdout refers to
    call,          \* the last call of a function of utils.py, with its result
    named,         \* history: the artifact names computed for input files
    runLog,        \* history: the runs of process_single_file, in order
    writes,        \* history: writes to the output directory made by runs for a file
    delivered,     \* history: the events handed to on_created, in order
    htrace,        \* history: steps on_created has taken for the current event
    obs            \* history: the file's size at the start of the wait and each second

vars == <<args, pc, exitCode, inputDir, size, outputDir, input_files, idx,
          success_count, fail_count, cur, stage, observer, evq, hpc, hfile,
          slept, processing, processed, nCreated, nDeleted, overlapped, kills,
          stdout, call, named, runLog, writes, delivered, htrace, obs>>

mainVars == <<pc, exitCode, input_files, idx, success_count, fail_count>>
handlerVars == <<hpc, hfile, slept, processing, processed, htrace, obs>>
runVars == <<cur, stage, outputDir, runLog, writes>>
envVars == <<inputDir, size, nCreated, nDeleted, overlapped, kills, stdout,
             call, named>>

\* What of envVars a write of process_single_file leaves alone.
histVars == <<nCreated, nDeleted, overlapped, kills, call, named>>

Init ==
    /\ args \in [watch : BOOLEAN, config_exists : BOOLEAN, input_dir_exists : BOOLEAN,
                 same_dir : {FALSE}]
    /\ pc = "start"
    /\ exitCode = "running"
    /\ inputDir \in IF ~args.input_dir_exists THEN {{}}
                    ELSE IF args.watch THEN WatchInitialDirs
                    ELSE SUBSET {F1, F2, F3}
    /\ size = [n \in Names |-> IF n \in inputDir /\ ~IsDir(n) THEN 1 ELSE 0]
    /\ outputDir \in InitialMarkers
    /\ input_files = <<>>
    /\ idx = 0
    /\ success_count = 0
    /\ fail_count = 0
    /\ cur = NoFile
    /\ stage = "none"
    /\ observer = "none"
    /\ evq = <<>>
    /\ hpc = "idle"
    /\ hfile = NoFile
    /\ slept = 0
    /\ processing = {}
    /\ processed = {}
    /\ nCreated = 0
    /\ nDeleted = 0
    /\ overlapped = {}
    /\ kills = <<>>
    /\ stdout = "console"
    /\ call = NoCall
    /\ named = {}
    /\ runLog = <<>>
    /\ writes = [n \in Names |-> 0]
    /\ delivered = <<>>
    /\ htrace = <<>>
    /\ obs = <<>>

\* ------------------------------------------------------ process_single_file
\* The caller enters process_single_file(f, ...).
RunBegin(f, by) ==
    /\ cur' = f
    /\ stage' = "config"
    /\ runLog' = Append(runLog, [file |-> f, by |-> by, res |-> "running"])

\* Faulty variant: the quality assessment is run before the result is saved.
NextStage_AssessBeforeSave(s) ==
    CASE s = "config" -> "load"
      [] s = "load" -> "preprocess"
      [] s = "preprocess" -> "extract"
      [] s = "extract" -> "assess"
      [] s = "assess" -> "save"
      [] s = "save" -> "report"
      [] s = "report" -> "done"

\* The statement that follows each stage in the body of process_single_file.
NextStage(s) ==
    CASE s = "config" -> "load"
      [] s = "load" -> "preprocess"
      [] s = "preprocess" -> "extract"
      [] s = "extract" -> "save"
      [] s = "save" -> "assess"
      [] s = "assess" -> "report"
      [] s = "report" -> "done"

\* The stage returns and the next one starts.
StageOk(next) ==
    /\ stage' = next
    /\ runLog' = IF next = "done"
                 THEN [runLog EXCEPT ![Len(runLog)].res = "returned"]
                 ELSE runLog

\* Faulty variant: the exception is swallowed inside process_single_file,
\* which returns normally.
StageRaise_Swallowed ==
    /\ stage' = "done"
    /\ runLog' = [runLog EXCEPT ![Len(runLog)].res = "returned"]

\* The stage raises: the exception leaves process_single_file.
StageRaise ==
    /\ stage' = "failed"
    /\ runLog' = [runLog EXCEPT ![Len(runLog)].res = "raised"]

\* A write of the run for cur into the output directory.  When that is the
\* input directory, a file that was not there appears in it, and a running
\* observer queues its creation event.  (Names outside the bounded universe
\* are not written.)
WriteOut(name) ==
    /\ args.same_dir => name \in DOMAIN size
    /\ outputDir' = outputDir \cup {name}
    /\ writes' = [writes EXCEPT ![cur] = @ + 1]
    /\ IF args.same_dir /\ name \notin inputDir
       THEN /\ inputDir' = inputDir \cup {name}
            /\ size' = [size EXCEPT ![name] = 1]
            /\ evq' = IF observer = "running" THEN Append(evq, name) ELSE evq
       ELSE UNCHANGED <<inputDir, size, evq>>

\* The stage writes nothing.
NoWrite == UNCHANGED <<outputDir, writes, inputDir, size, evq>>

\* with open(config_path) as f: config = json.load(f)
LoadConfig ==
    /\ stage = "config"
    /\ \E ok \in BOOLEAN : IF ok THEN StageOk(NextStage(stage)) ELSE StageRaise
    /\ UNCHANGED <<cur, outputDir, writes>>
    /\ UNCHANGED <<args, mainVars, handlerVars, envVars, observer, evq, delivered>>

\* load_nifti's checks before the decoder is called.
LoadPathOk(f) == f \in inputDir /\ LoadSuffixOk(f)

\* img = load_nifti(input_file)
LoadImage ==
    /\ stage = "load"
    /\ \E decoded \in BOOLEAN :
          IF LoadPathOk(cur) /\ ~IsDir(cur) /\ decoded
          THEN StageOk(NextStage(stage)) ELSE StageRaise
    /\ UNCHANGED <<cur, outputDir, writes>>
    /\ UNCHANGED <<args, mainVars, handlerVars, envVars, observer, evq, delivered>>

\* preprocessed = preprocess_image(...)
Preprocess ==
    /\ stage = "preprocess"
    /\ \E ok \in BOOLEAN : IF ok THEN StageOk(NextStage(stage)) ELSE StageRaise
    /\ UNCHANGED <<cur, outputDir, writes>>
    /\ UNCHANGED <<args, mainVars, handlerVars, envVars, observer, evq, delivered>>

\* result = atlas_based_skull_strip(...)
SkullStrip ==
    /\ stage = "extract"
    /\ \E ok \in BOOLEAN : IF ok THEN StageOk(NextStage(stage)) ELSE StageRaise
    /\ UNCHANGED <<cur, outputDir, writes>>
    /\ UNCHANGED <<args, mainVars, handlerVars, envVars, observer, evq, delivered>>

\* save_nifti(result, output_file)
SaveResult ==
    /\ stage = "save"
    /\ \E ok \in BOOLEAN :
          IF ok THEN StageOk(NextStage(stage)) /\ WriteOut(OutputFile(cur))
          ELSE StageRaise /\ NoWrite
    /\ UNCHANGED cur
    /\ UNCHANGED <<args, mainVars, handlerVars, histVars, stdout, observer, delivered>>

\* quality_results = assess_quality(result)
AssessQuality ==
    /\ stage = "assess"
    /\ \E ok \in BOOLEAN : IF ok THEN StageOk(NextStage(stage)) ELSE StageRaise
    /\ UNCHANGED <<cur, outputDir, writes>>
    /\ UNCHANGED <<args, mainVars, handlerVars, envVars, observer, evq, delivered>>

\* old_stdout = sys.stdout; sys.stdout = f; print(...); sys.stdout = old_stdout
\* The last assignment is reached only when no print raised; otherwise
\* sys.stdout is left on the report file, which the with statement closes.
\* A later call saves and restores whatever sys.stdout was when it began.
StdoutAfterReport(outcome) ==
    IF outcome = "print_raises" THEN "closed_report_file" ELSE stdout

\* with open(report_file, 'w') as f: ... print_quality_report(...)
\* The open may fail; once it has succeeded the file exists, and printing the
\* report may still raise.
SaveReport ==
    /\ stage = "report"
    /\ \E outcome \in {"ok", "open_raises", "print_raises"} :
          /\ CASE outcome = "ok" -> StageOk(NextStage(stage)) /\ WriteOut(ReportFile(cur))
                [] outcome = "open_raises" -> StageRaise /\ NoWrite
                [] outcome = "print_raises" -> StageRaise /\ WriteOut(ReportFile(cur))
          /\ stdout' = StdoutAfterReport(outcome)
    /\ UNCHANGED cur
    /\ UNCHANGED <<args, mainVars, handlerVars, histVars, observer, delivered>>

\* The caller has taken the run's result.
RunEnd ==
    /\ cur' = NoFile
    /\ stage' = "none"
    /\ UNCHANGED <<outputDir, runLog, writes>>

\* Variant that leaves out the entries that have an outcome marker.
Listings_SkipMarked ==
    SetToSeqs({n \in inputDir : GlobMatch(n) /\ ~HasOutcome(n, outputDir)})

\* Variant that leaves out the entries whose image is in the output
\* directory already.
Listings_SkipWritten ==
    SetToSeqs({n \in inputDir : GlobMatch(n) /\ OutputFile(n) \notin outputDir})

\* ------------------------------------------------------------------ __main__
\* The listings input_dir.glob('*.nii*') may return.
Listings == SetToSeqs({n \in inputDir : GlobMatch(n)})

\* Faulty variant: only the input directory is validated.
PathsMissing_InputOnly == ~args.input_dir_exists

\* if not args.config.exists(): ... ; if not args.input_dir.exists(): ...
PathsMissing == ~args.config_exists \/ ~args.input_dir_exists

\* Path validation, then the mode's function is called.
Main_Validate ==
    /\ pc = "start"
    /\ IF PathsMissing
       THEN pc' = "exited" /\ exitCode' = "1"
       ELSE pc' = (IF args.watch THEN "watch_list" ELSE "batch_list")
            /\ UNCHANGED exitCode
    /\ UNCHANGED <<input_files, idx, success_count, fail_count>>
    /\ UNCHANGED <<args, handlerVars, runVars, envVars, observer, evq, delivered>>

\* The mode's function has returned: the script ends.
Main_Exit ==
    /\ pc = "returned"
    /\ pc' = "exited"
    /\ exitCode' = "0"
    /\ UNCHANGED <<input_files, idx, success_count, fail_count>>
    /\ UNCHANGED <<args, handlerVars, runVars, envVars, observer, evq, delivered>>

\* --------------------------------------------------------------- batch_mode
\* mkdir, the listing, and the early return on an empty listing.
Batch_List ==
    /\ pc = "batch_list"
    /\ \E l \in Listings :
          /\ input_files' = l
          /\ pc' = IF l = <<>> THEN "returned" ELSE "batch_loop"
    /\ idx' = 1
    /\ UNCHANGED <<exitCode, success_count, fail_count>>
    /\ UNCHANGED <<args, handlerVars, runVars, envVars, observer, evq, delivered>>

\* for i, input_file in enumerate(input_files, 1): try: process_single_file
BatchCall(f) == RunBegin(f, "batch")

Batch_Process ==
    /\ pc = "batch_loop"
    /\ idx <= Len(input_files)
    /\ BatchCall(input_files[idx])
    /\ pc' = "batch_run"
    /\ UNCHANGED <<exitCode, input_files, idx, success_count, fail_count>>
    /\ UNCHANGED <<outputDir, writes>>
    /\ UNCHANGED <<args, handlerVars, envVars, observer, evq, delivered>>

\* Faulty variant: a returned call is not counted.
BatchOnReturn_NoCount ==
    /\ success_count' = success_count
    /\ idx' = idx + 1
    /\ pc' = "batch_loop"

\* What the loop does when process_single_file returned.
BatchOnReturn ==
    /\ success_count' = success_count + 1
    /\ idx' = idx + 1
    /\ pc' = "batch_loop"

\* success_count += 1
Batch_Success ==
    /\ pc = "batch_run"
    /\ stage = "done"
    /\ BatchOnReturn
    /\ RunEnd
    /\ UNCHANGED <<exitCode, input_files, fail_count>>
    /\ UNCHANGED <<args, handlerVars, envVars, observer, evq, delivered>>

\* Faulty variant: the except clause does not count the failure.
BatchOnException_NoCount ==
    /\ fail_count' = fail_count
    /\ idx' = idx + 1
    /\ pc' = "batch_loop"
    /\ UNCHANGED success_count

\* Faulty variant: the failed file is tried again instead of being counted.
BatchOnException_Retry ==
    /\ idx' = idx
    /\ pc' = "batch_loop"
    /\ UNCHANGED <<success_count, fail_count>>

\* What the except clause of the loop does to the counters and the loop.
BatchOnException ==
    /\ fail_count' = fail_count + 1
    /\ idx' = idx + 1
    /\ pc' = "batch_loop"
    /\ UNCHANGED success_count

\* except Exception as e: fail_count += 1
Batch_Except ==
    /\ pc = "batch_run"
    /\ stage = "failed"
    /\ BatchOnException
    /\ RunEnd
    /\ UNCHANGED <<exitCode, input_files>>
    /\ UNCHANGED <<args, handlerVars, envVars, observer, evq, delivered>>

\* The loop is over: the summary is logged and batch_mode returns.
Batch_Summary ==
    /\ pc = "batch_loop"
    /\ idx > Len(input_files)
    /\ pc' = "returned"
    /\ UNCHANGED <<exitCode, input_files, idx, success_count, fail_count>>
    /\ UNCHANGED <<args, handlerVars, runVars, envVars, observer, evq, delivered>>

\* --------------------------------------------------------------- watch_mode
\* mkdir and the listing of the files that exist already.
Watch_List ==
    /\ pc = "watch_list"
    /\ \E l \in Listings :
          /\ input_files' = l
          /\ pc' = IF l = <<>> THEN "watch_observe" ELSE "drain_loop"
    /\ idx' = 1
    /\ UNCHANGED <<exitCode, success_count, fail_count>>
    /\ UNCHANGED <<args, handlerVars, runVars, envVars, observer, evq, delivered>>

\* for file_path in existing_files: try: process_single_file
DrainCall(f) == RunBegin(f, "drain")

Drain_Process ==
    /\ pc = "drain_loop"
    /\ idx <= Len(input_files)
    /\ DrainCall(input_files[idx])
    /\ pc' = "drain_run"
    /\ UNCHANGED <<exitCode, input_files, idx, success_count, fail_count>>
    /\ UNCHANGED <<outputDir, writes>>
    /\ UNCHANGED <<args, handlerVars, envVars, observer, evq, delivered>>

\* process_single_file returned, or raised and the except clause logged it:
\* either way the loop goes on.
DrainNext == idx' = idx + 1 /\ pc' = "drain_loop"

Drain_Return ==
    /\ pc = "drain_run"
    /\ stage = "done"
    /\ DrainNext
    /\ RunEnd
    /\ UNCHANGED <<exitCode, input_files, success_count, fail_count>>
    /\ UNCHANGED <<args, handlerVars, envVars, observer, evq, delivered>>

\* Faulty variant: no except clause in the loop; the exception leaves
\* watch_mode and ends the process.
DrainOnException_Propagates ==
    /\ pc' = "exited"
    /\ idx' = idx

\* except Exception as e: logger.error(...): the loop goes on.
DrainOnException == DrainNext

Drain_Except ==
    /\ pc = "drain_run"
    /\ stage = "failed"
    /\ DrainOnException
    /\ RunEnd
    /\ UNCHANGED <<exitCode, input_files, success_count, fail_count>>
    /\ UNCHANGED <<args, handlerVars, envVars, observer, evq, delivered>>

Drain_Done ==
    /\ pc = "drain_loop"
    /\ idx > Len(input_files)
    /\ pc' = "watch_observe"
    /\ UNCHANGED <<exitCode, input_files, idx, success_count, fail_count>>
    /\ UNCHANGED <<args, handlerVars, runVars, envVars, observer, evq, delivered>>

\* event_handler = MRIFileHandler(...); observer.schedule(...); observer.start()
Watch_StartObserver ==
    /\ pc = "watch_observe"
    /\ observer' = "running"
    /\ processing' = {}
    /\ processed' = {}
    /\ pc' = "watching"
    /\ UNCHANGED <<exitCode, input_files, idx, success_count, fail_count>>
    /\ UNCHANGED <<hpc, hfile, slept, htrace, obs>>
    /\ UNCHANGED <<args, runVars, envVars, evq, delivered>>

\* except KeyboardInterrupt: observer.stop().  The observer thread ends its
\* loop after the handler it is in; queued events are not dispatched.
Watch_Interrupt ==
    /\ pc = "watching"
    /\ observer' = "stopped"
    /\ pc' = "joining"
    /\ UNCHANGED <<exitCode, input_files, idx, success_count, fail_count>>
    /\ UNCHANGED <<args, handlerVars, runVars, envVars, evq, delivered>>

\* Variant: the observer thread never ends, as when stop() is not called.
ObserverThreadEnded_Never == FALSE

\* Variant: the observer thread counts as ended while on_created is still
\* running, as when join() is left out.
ObserverThreadEnded_NoWait == observer = "stopped"

\* The observer thread ends when it has been stopped and the on_created call
\* it was in, if any, has returned.
ObserverThreadEnded == observer = "stopped" /\ hpc = "idle"

\* observer.join() returns once the observer thread has ended.
Watch_Join ==
    /\ pc = "joining"
    /\ ObserverThreadEnded
    /\ pc' = "returned"
    /\ UNCHANGED <<exitCode, input_files, idx, success_count, fail_count>>
    /\ UNCHANGED <<args, handlerVars, runVars, envVars, observer, evq, delivered>>

\* ------------------------------------------------ MRIFileHandler.on_created
\* on_created returns.
HandlerReturn == hpc' = "idle" /\ hfile' = NoFile

\* The observer thread takes the next event and calls on_created(event).
OnCreated_Dispatch ==
    /\ observer = "running"
    /\ hpc = "idle"
    /\ evq # <<>>
    /\ hfile' = Head(evq)
    /\ evq' = Tail(evq)
    /\ delivered' = Append(delivered, Head(evq))
    /\ hpc' = "is_directory"
    /\ htrace' = <<>>
    /\ obs' = <<>>
    /\ UNCHANGED <<slept, processing, processed>>
    /\ UNCHANGED <<args, mainVars, runVars, envVars, observer>>

\* if event.is_directory: return
OnCreated_IsDirectory ==
    /\ hpc = "is_directory"
    /\ IF IsDir(hfile) THEN HandlerReturn
       ELSE hpc' = "name_check" /\ UNCHANGED hfile
    /\ UNCHANGED <<slept, processing, processed, htrace, obs>>
    /\ UNCHANGED <<args, mainVars, runVars, envVars, observer, evq, delivered>>

\* if not (suffix == '.nii' or name.endswith('.nii.gz')): return
OnCreated_NameCheck ==
    /\ hpc = "name_check"
    /\ htrace' = Append(htrace, "name_check")
    /\ IF ~Recognized(hfile) THEN HandlerReturn
       ELSE hpc' = "dup_check" /\ UNCHANGED hfile
    /\ UNCHANGED <<slept, processing, processed, obs>>
    /\ UNCHANGED <<args, mainVars, runVars, envVars, observer, evq, delivered>>

\* Faulty variant: the duplicate check looks at the in-flight set only.
AlreadySeen_ProcessingOnly(f) == f \in processing

\* Variant in which a path with an outcome marker also counts as seen.
AlreadySeen_OrMarked(f) ==
    f \in processing \/ f \in processed \/ HasOutcome(f, outputDir)

\* str(file_path) in self.processing or str(file_path) in self.processed
AlreadySeen(f) == f \in processing \/ f \in processed

\* if ...: return ; otherwise the handler logs and starts time.sleep(2)
OnCreated_DupCheck ==
    /\ hpc = "dup_check"
    /\ htrace' = Append(htrace, "dup_check")
    /\ IF AlreadySeen(hfile)
       THEN HandlerReturn /\ UNCHANGED <<slept, obs>>
       ELSE /\ hpc' = "sleep"
            /\ slept' = 0
            /\ obs' = <<size[hfile]>>
            /\ UNCHANGED hfile
    /\ UNCHANGED <<processing, processed>>
    /\ UNCHANGED <<args, mainVars, runVars, envVars, observer, evq, delivered>>

\* Variant with a readiness detector: the wait also ends once two
\* consecutive samples show the same positive size.
SleepOver_WhenStable ==
    \/ slept >= SleepSeconds
    \/ Len(obs) >= 2 /\ obs[Len(obs)] = obs[Len(obs) - 1] /\ obs[Len(obs)] > 0

\* Faulty variant: no wait at all.
SleepOver_NoWait == TRUE

\* Whether time.sleep(2) has returned.
SleepOver == slept >= SleepSeconds

\* One second of time.sleep(2) passes.
OnCreated_Sleep ==
    /\ hpc = "sleep"
    /\ ~SleepOver
    /\ slept' = slept + 1
    /\ obs' = Append(obs, size[hfile])
    /\ htrace' = IF slept = 0 THEN Append(htrace, "wait") ELSE htrace
    /\ UNCHANGED <<hpc, hfile, processing, processed>>
    /\ UNCHANGED <<args, mainVars, runVars, envVars, observer, evq, delivered>>

\* Variant with a readiness gate: after the wait the file is taken only if
\* its last two size samples are equal and positive; otherwise the event is
\* dropped.
OnCreated_Add_OnlyIfStable ==
    /\ hpc = "sleep"
    /\ SleepOver
    /\ IF Len(obs) >= 2 /\ obs[Len(obs)] = obs[Len(obs) - 1] /\ obs[Len(obs)] > 0
       THEN /\ processing' = processing \cup {hfile}
            /\ hpc' = "call"
            /\ htrace' = Append(htrace, "acquire")
            /\ UNCHANGED hfile
       ELSE /\ HandlerReturn
            /\ UNCHANGED <<processing, htrace>>
    /\ UNCHANGED <<slept, processed, obs>>
    /\ UNCHANGED <<args, mainVars, runVars, envVars, observer, evq, delivered>>

\* self.processing.add(str(file_path))
OnCreated_Add ==
    /\ hpc = "sleep"
    /\ SleepOver
    /\ processing' = processing \cup {hfile}
    /\ hpc' = "call"
    /\ htrace' = Append(htrace, "acquire")
    /\ UNCHANGED <<hfile, slept, processed, obs>>
    /\ UNCHANGED <<args, mainVars, runVars, envVars, observer, evq, delivered>>

\* try: process_single_file(file_path, self.config_path, self.output_dir)
OnCreated_Call ==
    /\ hpc = "call"
    /\ RunBegin(hfile, "event")
    /\ hpc' = "run"
    /\ htrace' = Append(htrace, "run")
    /\ UNCHANGED <<hfile, slept, processing, processed, obs>>
    /\ UNCHANGED <<outputDir, writes>>
    /\ UNCHANGED <<args, mainVars, envVars, observer, evq, delivered>>

\* Faulty variant: a completed file is not recorded.
ProcessedAfterSuccess_Forgets(f) == processed

\* self.processed.add(str(file_path))
ProcessedAfterSuccess(f) == processed \cup {f}

\* process_single_file returned: the file is recorded as completed.
OnCreated_Success ==
    /\ hpc = "run"
    /\ stage = "done"
    /\ processed' = ProcessedAfterSuccess(hfile)
    /\ hpc' = "finally"
    /\ htrace' = Append(htrace, "commit")
    /\ RunEnd
    /\ UNCHANGED <<hfile, slept, processing, obs>>
    /\ UNCHANGED <<args, mainVars, envVars, observer, evq, delivered>>

\* Faulty variant: a failed file is recorded as completed.
ProcessedAfterFailure_Records(f) == processed \cup {f}

\* What the except clause records about the failed file: nothing.
ProcessedAfterFailure(f) == processed

\* Faulty variant: no except clause; the exception leaves on_created and
\* ends the observer thread.
CatchException_Propagates ==
    /\ processed' = processed
    /\ hpc' = "crashed"

\* except Exception as e: logger.error(...): the exception is logged and
\* on_created goes on to its finally clause.
CatchException ==
    /\ processed' = ProcessedAfterFailure(hfile)
    /\ hpc' = "finally"

\* process_single_file raised.
OnCreated_Except ==
    /\ hpc = "run"
    /\ stage = "failed"
    /\ CatchException
    /\ RunEnd
    /\ UNCHANGED <<hfile, slept, processing, htrace, obs>>
    /\ UNCHANGED <<args, mainVars, envVars, observer, evq, delivered>>

\* Faulty variant: the path is never taken out of the in-flight set.
ProcessingAfterRelease_Leaks(f) == processing

\* self.processing.discard(str(file_path))
ProcessingAfterRelease(f) == processing \ {f}

\* finally: the path leaves the in-flight set and on_created returns.
OnCreated_Finally ==
    /\ hpc = "finally"
    /\ processing' = ProcessingAfterRelease(hfile)
    /\ htrace' = Append(htrace, "release")
    /\ HandlerReturn
    /\ UNCHANGED <<slept, processed, obs>>
    /\ UNCHANGED <<args, mainVars, runVars, envVars, observer, evq, delivered>>

\* -------------------------------------------------------------- environment
\* The input directory is written to by others while the watcher runs.  What
\* is created while the existing files are processed is in the same position
\* as what is created just before observer.start(): in no listing, and with
\* no event.
EnvActive == args.watch /\ pc \in {"watch_observe", "watching"}

\* An event for n is queued or on_created is working on one.
EventPending(n) == (\E i \in 1..Len(evq) : evq[i] = n) \/ n = hfile

\* An entry is created in the input directory; a running observer queues
\* the creation event.
CreateFile(n) ==
    /\ EnvActive
    /\ nCreated < MaxEvents
    /\ n \notin inputDir
    /\ inputDir' = inputDir \cup {n}
    /\ size' = [size EXCEPT ![n] = 0]
    /\ nCreated' = nCreated + 1
    /\ overlapped' = IF observer = "running" /\ EventPending(n)
                     THEN overlapped \cup {n} ELSE overlapped
    /\ UNCHANGED <<nDeleted, kills, stdout, call, named>>
    /\ evq' = IF observer = "running" THEN Append(evq, n) ELSE evq
    /\ UNCHANGED <<args, mainVars, handlerVars, runVars, observer, delivered>>

\* An entry is removed from the input directory.
DeleteFile(n) ==
    /\ EnvActive
    /\ nDeleted < MaxDeletes
    /\ n \in inputDir
    /\ inputDir' = inputDir \ {n}
    /\ size' = [size EXCEPT ![n] = 0]
    /\ nDeleted' = nDeleted + 1
    /\ UNCHANGED <<nCreated, overlapped, kills, stdout, call, named>>
    /\ UNCHANGED <<args, mainVars, handlerVars, runVars, observer, evq, delivered>>

\* The event for n is queued, or on_created has it and has not finished its
\* wait: the only span in which the size of n is looked at.
AwaitingReadiness(n) ==
    \/ \E i \in 1..Len(evq) : evq[i] = n
    \/ n = hfile /\ hpc \in {"is_directory", "name_check", "dup_check", "sleep"}

\* The writer of a file appends a block to it.
WriteBytes(n) ==
    /\ EnvActive
    /\ AwaitingReadiness(n)
    /\ n \in inputDir
    /\ ~IsDir(n)
    /\ size[n] < MaxSize
    /\ size' = [size EXCEPT ![n] = @ + 1]
    /\ UNCHANGED <<inputDir, nCreated, nDeleted, overlapped, kills, stdout,
                   call, named>>
    /\ UNCHANGED <<args, mainVars, handlerVars, runVars, observer, evq, delivered>>

\* The process is killed while a run is under way (its caller has not taken
\* its result), and the program is started again, in either mode, on the same
\* directories.  Nothing of the killed process is left but the files.
Kill ==
    /\ Len(kills) < MaxKills
    /\ cur # NoFile
    /\ kills' = Append(kills, [file |-> cur, runs |-> Len(runLog)])
    /\ runLog' = [runLog EXCEPT ![Len(runLog)].res = "killed"]
    /\ \E w \in BOOLEAN : args' = [args EXCEPT !.watch = w]
    /\ pc' = "start"
    /\ exitCode' = "running"
    /\ input_files' = <<>>
    /\ idx' = 0
    /\ success_count' = 0
    /\ fail_count' = 0
    /\ cur' = NoFile
    /\ stage' = "none"
    /\ observer' = "none"
    /\ evq' = <<>>
    /\ hpc' = "idle"
    /\ hfile' = NoFile
    /\ slept' = 0
    /\ processing' = {}
    /\ processed' = {}
    /\ delivered' = <<>>
    /\ htrace' = <<>>
    /\ obs' = <<>>
    /\ stdout' = "console"
    /\ UNCHANGED <<inputDir, size, outputDir, writes, nCreated, nDeleted, overlapped,
                   call, named>>

\* ------------------------------------------------------------ specification
MainStep == Main_Validate \/ Main_Exit

BatchStep ==
    Batch_List \/ Batch_Process \/ Batch_Success \/ Batch_Except \/ Batch_Summary

WatchStep ==
    \/ Watch_List \/ Drain_Process \/ Drain_Return \/ Drain_Except \/ Drain_Done
    \/ Watch_StartObserver \/ Watch_Interrupt \/ Watch_Join

HandlerStep ==
    \/ OnCreated_Dispatch \/ OnCreated_IsDirectory \/ OnCreated_NameCheck
    \/ OnCreated_DupCheck \/ OnCreated_Sleep \/ OnCreated_Add \/ OnCreated_Call
    \/ OnCreated_Success \/ OnCreated_Except \/ OnCreated_Finally

PipelineStep ==
    \/ LoadConfig \/ LoadImage \/ Preprocess \/ SkullStrip \/ SaveResult
    \/ AssessQuality \/ SaveReport

EnvStep == \E n \in Names : CreateFile(n) \/ DeleteFile(n)

Next == MainStep \/ BatchStep \/ WatchStep \/ HandlerStep \/ PipelineStep \/ EnvStep

Spec == Init /\ [][Next]_vars

\* The watcher alone, with the writers of the input files appending to them
\* while the handler waits: the specification of the claims about the wait.
InitReady ==
    /\ Init
    /\ args.watch /\ args.config_exists /\ args.input_dir_exists
    /\ inputDir = {}
    /\ outputDir = {}

NextReady ==
    \/ MainStep \/ Watch_List \/ Watch_StartObserver \/ Watch_Interrupt \/ Watch_Join
    \/ HandlerStep \/ PipelineStep
    \/ \E n \in Names : CreateFile(n) \/ WriteBytes(n)

SpecReady == InitReady /\ [][NextReady]_vars

\* The watcher from start to stop, with valid paths and files arriving, and
\* with what the scheduling gives: the main thread and the observer thread
\* both keep running, and every stage of a run ends.  Nothing makes the
\* interrupt arrive.
InitWatch ==
    /\ Init
    /\ args.watch /\ args.config_exists /\ args.input_dir_exists
    /\ outputDir = {}

NextWatch ==
    \/ MainStep \/ WatchStep \/ HandlerStep \/ PipelineStep
    \/ \E n \in Names : CreateFile(n)

MainProgress ==
    \/ Main_Validate \/ Main_Exit \/ Watch_List \/ Drain_Process \/ Drain_Return
    \/ Drain_Except \/ Drain_Done \/ Watch_StartObserver \/ Watch_Join

\* The watcher up to observer.start().
InitDrain ==
    /\ Init
    /\ args.watch /\ args.config_exists /\ args.input_dir_exists

NextDrain ==
    \/ Main_Validate \/ Watch_List \/ Drain_Process \/ Drain_Return
    \/ Drain_Except \/ Drain_Done \/ Watch_StartObserver \/ PipelineStep

SpecDrain ==
    /\ InitDrain
    /\ [][NextDrain]_vars
    /\ WF_vars(MainProgress)
    /\ WF_vars(PipelineStep)

\* The program with kills and restarts, on an output directory that holds
\* only what the program writes and an input directory of at most two files
\* that does not change: batch passes, and watcher starts up to
\* observer.start().
InitCrash ==
    /\ Init
    /\ args.config_exists /\ args.input_dir_exists
    /\ inputDir \subseteq {F1, F3}
    /\ outputDir = {}

NextCrash ==
    \/ MainStep \/ BatchStep
    \/ Watch_List \/ Drain_Process \/ Drain_Return \/ Drain_Except \/ Drain_Done
    \/ Watch_StartObserver
    \/ PipelineStep
    \/ Kill

SpecCrash == InitCrash /\ [][NextCrash]_vars

\* A batch pass, with the main thread kept running and every stage ending.
InitBatch == Init /\ ~args.watch

NextBatch == MainStep \/ BatchStep \/ PipelineStep

SpecBatch ==
    /\ InitBatch
    /\ [][NextBatch]_vars
    /\ WF_vars(MainStep \/ BatchStep)
    /\ WF_vars(PipelineStep)

SpecWatch ==
    /\ InitWatch
    /\ [][NextWatch]_vars
    /\ WF_vars(MainProgress)
    /\ WF_vars(HandlerStep)
    /\ WF_vars(PipelineStep)

\* ------------------------------------------------------------------ history
\* Indices of the runs of process_single_file for f.
RunsOf(f) == {i \in 1..Len(runLog) : runLog[i].file = f}

\* Indices of the runs for f that on_created started.
EventRunsOf(f) == {i \in RunsOf(f) : runLog[i].by = "event"}

\* Number of runs that raised.
Failures == Cardinality({i \in 1..Len(runLog) : runLog[i].res = "raised"})

\* The files of the runs, in the order the runs started.
RunFiles == [i \in 1..Len(runLog) |-> runLog[i].file]

\* Indices of the runs whose result the caller has taken.
Completed == {i \in 1..Len(runLog) : i < Len(runLog) \/ stage = "none"}

\* Paths with a creation-event run that returned normally to on_created.
SucceededByEvent ==
    {runLog[i].file : i \in {j \in Completed :
                              runLog[j].by = "event" /\ runLog[j].res = "returned"}}

\* batch_mode has gone through a non-empty listing and returned.
BatchFinished == ~args.watch /\ pc \in {"returned", "exited"} /\ input_files # <<>>

\* s is an initial segment of t.
IsPrefix(s, t) == Len(s) <= Len(t) /\ SubSeq(t, 1, Len(s)) = s

\* ------------------------------------------------------------------- claims

\* C1 as stated: a file that has an outcome marker in the output directory
\* gets no further write from any ingestion path (batch pass, drain, event).
\* No action writes or removes a marker, so a marked file was marked at the
\* start and every write of a run for it is an additional one.
C1_MarkedFileNeverWritten ==
    \A f \in Names : HasOutcome(f, outputDir) => writes[f] = 0

\* C1 amended: the only record consulted is the handler's in-memory processed
\* set.  While a path is in it, no step starts a run for that path or writes
\* to the output directory for it, and the path stays in the set.
C1_ProcessedPathNotRerun ==
    [][\A f \in Names :
          f \in processed =>
              /\ writes'[f] = writes[f]
              /\ RunsOf(f)' = RunsOf(f)
              /\ f \in processed']_vars

\* C1 witness: a second creation event for a path whose first event run
\* succeeded has been handled and dropped at the duplicate check.
C1_Witness ==
    /\ Len(delivered) = 2
    /\ delivered[1] = F1 /\ delivered[2] = F1
    /\ hpc = "idle"
    /\ htrace = <<"name_check", "dup_check">>
    /\ F1 \in processed
    /\ Cardinality(RunsOf(F1)) = 1

\* C2 as stated: of the creation events on one path that were pending at the
\* same time, exactly one runs the pipeline.
C2_OneRunPerOverlappedPath ==
    \A f \in overlapped : Cardinality(EventRunsOf(f)) <= 1

\* C2 amended: on_created calls are serialised on the observer thread, so at
\* most one path is in flight and it is the one being handled; an event for
\* a path is accepted again only after every earlier event run for that path
\* raised, so at most one event run per path returns normally.
C2_SerialisedSingleFlight ==
    /\ Cardinality(processing) <= 1
    /\ processing \subseteq {hfile}
    /\ \A f \in Names : \A i, j \in EventRunsOf(f) :
          i < j => runLog[i].res = "raised"

\* C2 witness: a path was created again while an event for it was pending,
\* and both events ran the pipeline.
C2_Witness ==
    \E f \in overlapped : Cardinality(EventRunsOf(f)) = 2

\* C3 as stated: a finished batch pass has left a success marker for every
\* file whose run returned and an error marker for every file whose run
\* raised.
C3_BatchWritesMarkers ==
    BatchFinished =>
        \A i \in 1..Len(runLog) :
            /\ runLog[i].res = "returned" => ProcessedMarker(runLog[i].file) \in outputDir
            /\ runLog[i].res = "raised" => ErrorMarker(runLog[i].file) \in outputDir

\* C3 amended: a batch pass over N files of which k raise runs all N, ends
\* with success_count = N - k and fail_count = k, writes no marker, and
\* leaves by the same path as for k = 0: batch_mode returns and the exit
\* status is 0.
C3_BatchFailureIsolation ==
    BatchFinished =>
        /\ Len(runLog) = Len(input_files)
        /\ fail_count = Failures
        /\ success_count = Len(input_files) - Failures
        /\ Markers(outputDir) \in InitialMarkers
        /\ exitCode \in {"running", "0"}
        /\ pc = "exited" => exitCode = "0"

\* C3 witness: a pass over three files, two of which failed, has exited 0.
C3_Witness ==
    /\ BatchFinished
    /\ pc = "exited" /\ exitCode = "0"
    /\ Len(input_files) = 3
    /\ Failures = 2
    /\ success_count = 1

\* C4 as stated: a path with an error marker is never run, and no run for a
\* path follows a failed run for that path.
C4_ErroredNeverRetried ==
    /\ \A f \in Names : ErrorMarker(f) \in outputDir => RunsOf(f) = {}
    /\ \A f \in Names : \A i, j \in RunsOf(f) : i < j => runLog[i].res # "raised"

\* C4 amended: only success is remembered, and only in memory: processed
\* holds exactly the paths with a creation-event run that returned, and an
\* event is taken past the duplicate check only for a path not in it.  A
\* failed attempt leaves no record, so the path is eligible again.
C4_OnlySuccessRemembered ==
    /\ processed = SucceededByEvent
    /\ hpc \in {"sleep", "call", "run"} => hfile \notin processed

\* C4 witness: the run for a creation event failed, and a later creation
\* event for the same path has started another run.
C4_Witness ==
    \E f \in Names : \E i, j \in EventRunsOf(f) :
        i < j /\ runLog[i].res = "raised" /\ f \notin processed

\* The scenario of C5: the watcher drained one pre-existing file, then one
\* creation event, for a second file (a.nii or b.nii.gz), was handled to the
\* end.
C5_Scenario ==
    /\ args.watch
    /\ Len(input_files) = 1
    /\ Len(delivered) = 1
    /\ delivered[1] # input_files[1]
    /\ delivered[1] \in {F1, F2}
    /\ hpc = "idle"

\* C5 as stated: in the scenario both files were processed once, in that
\* order, and each has its own outcome marker.
C5_EachGetsMarker ==
    C5_Scenario =>
        /\ RunFiles = <<input_files[1], delivered[1]>>
        /\ HasOutcome(input_files[1], outputDir)
        /\ HasOutcome(delivered[1], outputDir)

\* C5 amended: in the scenario each file is processed exactly once, the
\* drained file by the drain and before the evented file; no outcome marker
\* is written for either: the only record is the evented file's membership
\* in processed, which it has exactly when its run returned.
C5_DrainThenEventOnce ==
    C5_Scenario =>
        /\ RunFiles = <<input_files[1], delivered[1]>>
        /\ runLog[1].by = "drain"
        /\ runLog[2].by = "event"
        /\ Markers(outputDir) \in InitialMarkers
        /\ processed = IF runLog[2].res = "returned" THEN {delivered[1]} ELSE {}

\* C5 witness: the scenario with a.nii drained and b.nii.gz evented, both
\* runs successful, in an output directory that held no marker.
C5_Witness ==
    /\ C5_Scenario
    /\ input_files = <<F1>>
    /\ delivered = <<F2>>
    /\ Markers(outputDir) = {}
    /\ runLog[1].res = "returned"
    /\ runLog[2].res = "returned"

\* C6 as stated: a batch pass does not run the files of its listing that
\* carry a .processed or .error marker.
C6_MarkedFilesSkipped ==
    BatchFinished =>
        \A f \in Range(input_files) : HasOutcome(f, outputDir) => RunsOf(f) = {}

\* C6 amended: a batch pass lists every entry matching *.nii*, marked or
\* not, runs each exactly once in listing order, leaves the marker files as
\* they were, and counts only succeeded and failed, which add up to the
\* number of listed files: there is no skipped count.
C6_BatchRunsEveryListedFile ==
    BatchFinished =>
        /\ Range(input_files) = {n \in inputDir : GlobMatch(n)}
        /\ RunFiles = input_files
        /\ \A i \in 1..Len(runLog) : runLog[i].by = "batch"
        /\ success_count + fail_count = Len(input_files)
        /\ Markers(outputDir) \in InitialMarkers

\* C6 witness: a.nii new, b.nii.gz with a .processed marker, c.nii.txt with
\* an .error marker; the pass has run all three and written b's artifacts
\* again.
C6_Witness ==
    /\ BatchFinished
    /\ Range(input_files) = {F1, F2, F3}
    /\ ProcessedMarker(F2) \in outputDir /\ ErrorMarker(F3) \in outputDir
    /\ OutputFile(F2) \in outputDir
    /\ writes[F2] = 2
    /\ success_count = 2 /\ fail_count = 1

\* C7: the path being handled is in the in-flight set from processing.add
\* until the finally clause, whatever the run's outcome, and in no other
\* position of on_created; when no handler is executing the set is empty.
C7_InFlightReleased ==
    /\ hpc \in {"call", "run", "finally"} => processing = {hfile}
    /\ hpc \notin {"call", "run", "finally"} => processing = {}
    /\ hpc = "run" => cur = hfile

\* C7 witness: a creation-event run raised, on_created has returned and the
\* in-flight set is empty.
C7_Witness ==
    /\ hpc = "idle"
    /\ runLog # <<>>
    /\ runLog[Len(runLog)].by = "event"
    /\ runLog[Len(runLog)].res = "raised"
    /\ processing = {}

\* C8 as stated: every failed creation-event run that on_created has dealt
\* with has left an error marker for its file.
C8_FailureBecomesErrorMarker ==
    \A i \in Completed :
        (runLog[i].by = "event" /\ runLog[i].res = "raised")
            => ErrorMarker(runLog[i].file) \in outputDir

\* C8 amended: when process_single_file raises inside on_created, the
\* handler goes on to its finally clause and returns (the exception does not
\* leave it), nothing is written to the output directory and nothing is added
\* to processed: the failure is only logged.  The observer is not stopped by
\* it.
C8_FailureCaughtAndLogged ==
    [][(hpc = "run" /\ stage = "failed" /\ hpc' # hpc) =>
          /\ hpc' = "finally"
          /\ processed' = processed
          /\ outputDir' = outputDir
          /\ observer' = observer
          /\ evq' = evq]_vars

\* C8 witness: the run for one creation event raised, and a later creation
\* event for another file was then processed to the end.
C8_Witness ==
    /\ Len(runLog) = 2
    /\ runLog[1].by = "event" /\ runLog[1].res = "raised"
    /\ runLog[2].by = "event" /\ runLog[2].res = "returned"
    /\ runLog[1].file # runLog[2].file
    /\ hpc = "idle"

\* Two consecutive samples of the awaited file's size are equal and positive.
StableSamples ==
    Len(obs) >= 2 /\ obs[Len(obs)] = obs[Len(obs) - 1] /\ obs[Len(obs)] > 0

\* C9 as stated: the wait is over as soon as two consecutive polls have seen
\* the same strictly positive size, before the full time has passed.
C9_ReadyWhenStable ==
    ~(hpc = "sleep" /\ slept < SleepSeconds /\ StableSamples)

\* C9 amended: on_created has no readiness detector.  It sleeps a fixed two
\* seconds after the duplicate check, whatever the size does, and a creation
\* event's run starts only after the whole sleep.
C9_FixedSleepBeforeRun ==
    /\ hpc \in {"call", "run"} => slept = SleepSeconds /\ Len(obs) = SleepSeconds + 1
    /\ hpc = "sleep" => slept <= SleepSeconds /\ Len(obs) = slept + 1
    /\ \A i \in 1..Len(runLog) :
          (runLog[i].by = "event" /\ i = Len(runLog) /\ stage # "none")
              => hpc = "run" /\ slept = SleepSeconds

\* C9 witness: the size was stable and positive from the first second on, and
\* the handler still slept the full time before the run.
C9_Witness ==
    /\ hpc = "run"
    /\ obs = <<1, 1, 1>>

\* The steps of on_created for an event whose run returns / raises.
StepsOnSuccess ==
    <<"name_check", "dup_check", "wait", "acquire", "run", "commit", "release">>
StepsOnFailure ==
    <<"name_check", "dup_check", "wait", "acquire", "run", "release">>

\* C10 as stated: the already-processed check is performed only after the
\* wait and the in-flight acquire.
C10_CheckAfterWaitAndAcquire ==
    \A i \in 1..Len(htrace) :
        htrace[i] = "dup_check" =>
            \E j, k \in 1..(i - 1) : htrace[j] = "wait" /\ htrace[k] = "acquire"

\* C10 amended: the steps occur in the fixed order name check, duplicate
\* check against the in-memory sets, wait, in-flight add, pipeline run,
\* commit to processed (on success only), release: the duplicate check comes
\* before the wait and the add, and the commit before the release.
C10_HandlerStepOrder ==
    /\ IsPrefix(htrace, StepsOnSuccess) \/ IsPrefix(htrace, StepsOnFailure)
    /\ hpc = "run" => htrace = SubSeq(StepsOnSuccess, 1, 5)
    /\ hpc = "call" => htrace = SubSeq(StepsOnSuccess, 1, 4)

\* C10 witness: a creation event has been handled to the end with a
\* successful run.
C10_Witness ==
    /\ hpc = "idle"
    /\ htrace = StepsOnSuccess


\* The watcher's lifecycle state at each position of watch_mode.
WatcherState ==
    CASE pc = "start" -> "NotStarted"
      [] pc = "watch_list" -> "Initializing"
      [] pc \in {"drain_loop", "drain_run", "watch_observe"} -> "Draining-Existing"
      [] pc = "watching" -> "Watching"
      [] pc = "joining" -> "ShuttingDown"
      [] pc \in {"returned", "exited"} -> "Stopped"

LifecycleOrder ==
    <<"NotStarted", "Initializing", "Draining-Existing", "Watching",
      "ShuttingDown", "Stopped">>

StateRank(s) == CHOOSE i \in 1..Len(LifecycleOrder) : LifecycleOrder[i] = s

\* C11: the watcher changes state only to the next state of Initializing,
\* Draining-Existing, Watching, ShuttingDown, Stopped; it never leaves
\* Stopped; and once the interrupt has been taken in Watching it reaches
\* Stopped.
C11_WatcherLifecycle ==
    /\ [][WatcherState' # WatcherState =>
             StateRank(WatcherState') = StateRank(WatcherState) + 1]_vars
    /\ [][WatcherState = "Stopped" => WatcherState' = "Stopped"]_vars
    /\ (WatcherState = "ShuttingDown") ~> (WatcherState = "Stopped")

\* C11 witness: the watcher drained a file, handled a creation event, was
\* interrupted, and the process has ended.
C11_Witness ==
    /\ pc = "exited" /\ exitCode = "0"
    /\ Len(input_files) = 1
    /\ Len(runLog) = 2
    /\ runLog[2].by = "event"
    /\ observer = "stopped"
    /\ hpc = "idle"


\* C12 as stated: once the interrupt has been taken no pipeline run starts,
\* and watch_mode returns only when no run is under way.
C12_NoRunStartsAfterSignal ==
    /\ [][observer = "stopped" => Len(runLog') = Len(runLog)]_vars
    /\ [](args.watch /\ pc \in {"returned", "exited"} => stage = "none")

\* C12 amended: once the interrupt has been taken no further event is handed
\* to on_created; the on_created call under way at that moment goes on to
\* its end, which includes starting its pipeline run if it was still in its
\* duplicate check or its wait; no run is given up between two stages; and
\* watch_mode returns only after that call has returned.
C12_GracefulShutdown ==
    /\ [][observer = "stopped" => delivered' = delivered /\ evq' = evq]_vars
    /\ [][observer = "stopped" /\ hfile # NoFile =>
             hfile' = hfile \/ hpc \in {"is_directory", "name_check", "dup_check", "finally"}]_vars
    /\ [][stage \notin {"none", "done", "failed"} => stage' # "none"]_vars
    /\ [](args.watch /\ pc \in {"returned", "exited"} =>
             hpc = "idle" /\ stage = "none" /\ processing = {})

\* C12 witness: the interrupt has been taken while on_created is in the
\* middle of a run and another event is still queued.
C12_Witness ==
    /\ pc = "joining"
    /\ observer = "stopped"
    /\ hpc = "run"
    /\ stage = "save"
    /\ evq # <<>>


\* C13: from Draining-Existing the watcher goes nowhere but to Watching,
\* and it gets there whatever the runs of the drain did; the observer runs
\* from then on.
C13_DrainLeadsToWatching ==
    /\ [][WatcherState = "Draining-Existing" =>
             WatcherState' \in {"Draining-Existing", "Watching"}]_vars
    /\ (WatcherState = "Draining-Existing") ~> (WatcherState = "Watching")
    /\ [](WatcherState = "Watching" =>
             observer = "running" /\ Len(runLog) = Len(input_files))

\* C13 witness: two files were listed, the run of each raised, and the
\* watcher is watching.
C13_Witness ==
    /\ pc = "watching"
    /\ observer = "running"
    /\ Len(input_files) = 2
    /\ Failures = 2


Extension(n) ==
    IF DotIdx(n) = {} THEN <<>>
    ELSE SubSeq(n, CHOOSE i \in DotIdx(n) : \A j \in DotIdx(n) : i <= j, Len(n))

\* The two output names as the specification gives them: the full input
\* name, then the tag.
FullNameOutput(n) == n \o <<"_skull_stripped">> \o Extension(n)
FullNameReport(n) == n \o <<"_quality_report", ".", "txt">>

\* C15 as stated: what the runs write is named after the full input name
\* (b.nii.gz_skull_stripped.nii.gz, b.nii.gz_quality_report.txt).
C15_NamedAfterFullName ==
    \A x \in outputDir \ Markers(outputDir) :
        \E i \in 1..Len(runLog) :
            x \in {FullNameOutput(runLog[i].file), FullNameReport(runLog[i].file)}

\* C15 amended: the names are built on the input name without its last
\* suffix, and the image always ends in .nii.gz: a.nii gives
\* a_skull_stripped.nii.gz and a_quality_report.txt, b.nii.gz gives
\* b.nii_skull_stripped.nii.gz and b.nii_quality_report.txt.  Nothing else
\* is written, and a returned run has written both of its names.
C15_NamedAfterStem ==
    LET image(f) ==
            IF f = F1 THEN <<"a", "_skull_stripped", ".", "nii", ".", "gz">>
            ELSE <<"b", ".", "nii", "_skull_stripped", ".", "nii", ".", "gz">>
        report(f) ==
            IF f = F1 THEN <<"a", "_quality_report", ".", "txt">>
            ELSE <<"b", ".", "nii", "_quality_report", ".", "txt">>
    IN  /\ \A x \in outputDir \ Markers(outputDir) :
              \E i \in 1..Len(runLog) :
                  /\ runLog[i].file \in {F1, F2}
                  /\ x \in {image(runLog[i].file), report(runLog[i].file)}
        /\ \A i \in 1..Len(runLog) :
              runLog[i].res = "returned" =>
                  /\ runLog[i].file \in {F1, F2}
                  /\ image(runLog[i].file) \in outputDir
                  /\ report(runLog[i].file) \in outputDir

\* C15 witness: a batch pass has run a.nii and b.nii.gz with success.
C15_Witness ==
    /\ BatchFinished
    /\ \E i \in 1..Len(runLog) : runLog[i].file = F2 /\ runLog[i].res = "returned"
    /\ \E i \in 1..Len(runLog) : runLog[i].file = F1 /\ runLog[i].res = "returned"


\* The stages of a run in the order of the specification.
StageOrder == <<"load", "preprocess", "extract", "save", "assess", "report">>

\* C16: within a run the stages start in the order load, preprocess,
\* extract, save, assess, report (after the configuration is read), each one
\* from the one before it and only when that one returned; the image is in
\* the output directory once save has returned, and the report once the run
\* has.
C16_FixedStageOrder ==
    /\ [][(stage' # stage /\ stage' \notin {"failed", "none"}) =>
             \/ stage = "none" /\ stage' = "config"
             \/ stage = "config" /\ stage' = StageOrder[1]
             \/ \E i \in 1..(Len(StageOrder) - 1) :
                   stage = StageOrder[i] /\ stage' = StageOrder[i + 1]
             \/ stage = StageOrder[Len(StageOrder)] /\ stage' = "done"]_vars
    /\ [][writes' # writes => stage \in {"save", "report"}]_vars
    /\ [](stage \in {"assess", "report", "done"} => OutputFile(cur) \in outputDir)
    /\ [](stage = "done" => ReportFile(cur) \in outputDir)

\* C16 witness: a first run of b.nii.gz has gone through all its stages.
C16_Witness ==
    /\ stage = "done"
    /\ cur = F2
    /\ writes[F2] = 2
    /\ outputDir \ Markers(outputDir) = {OutputFile(F2), ReportFile(F2)}


\* C17 as stated: every failed run whose caller has dealt with it has left
\* an error marker and no success marker for its file.
C17_FailedRunLeavesErrorMarker ==
    \A i \in Completed :
        runLog[i].res = "raised" =>
            /\ ErrorMarker(runLog[i].file) \in outputDir
            /\ ProcessedMarker(runLog[i].file) \notin outputDir

\* C17 amended: when a stage raises, no later stage of the run executes; the
\* exception reaches the caller, which logs it (batch_mode also counts it)
\* and records nothing else: no marker of either kind is written, processed
\* and success_count are unchanged, also when the image was written already.
\* A run returns normally only from its last stage.
C17_FailureAbortsRun ==
    /\ [][stage = "failed" => stage' \in {"failed", "none"}]_vars
    /\ [][stage = "failed" /\ stage' = "none" =>
             /\ runLog[Len(runLog)].res = "raised"
             /\ processed' = processed
             /\ success_count' = success_count
             /\ outputDir' = outputDir
             /\ fail_count' = IF pc = "batch_run" THEN fail_count + 1 ELSE fail_count]_vars
    /\ [][stage' = "done" /\ stage # "done" =>
             stage = "report" /\ ReportFile(cur) \in outputDir']_vars

\* C17 witness: the run for a creation event raised after the image was
\* written; on_created has returned, and nothing records the file.
C17_Witness ==
    /\ hpc = "idle"
    /\ Len(runLog) = 1
    /\ runLog[1] = [file |-> F1, by |-> "event", res |-> "raised"]
    /\ OutputFile(F1) \in outputDir
    /\ ReportFile(F1) \notin outputDir
    /\ processed = {}
    /\ Markers(outputDir) = {}


\* C18 as stated: no file has both markers, and a file that has one is never
\* run.
C18_OneMarkerAndSkipped ==
    /\ \A f \in Names :
          ~(ProcessedMarker(f) \in outputDir /\ ErrorMarker(f) \in outputDir)
    /\ \A f \in Names : HasOutcome(f, outputDir) => RunsOf(f) = {}

\* C18 amended: the program adds and removes no marker, so no file gets a
\* second one; and a marker skips nothing: a listing holds every matching
\* entry of the input directory, marked or not, and a creation event is
\* dropped at the duplicate check exactly when its path is in processing or
\* processed.
C18_MarkersInertAndIgnored ==
    /\ [][Markers(outputDir') = Markers(outputDir)]_vars
    /\ [](\A f \in Names :
             ~(ProcessedMarker(f) \in outputDir /\ ErrorMarker(f) \in outputDir))
    /\ [][(pc \in {"batch_list", "watch_list"} /\ pc' # pc) =>
             (\A n \in Names : (n \in Range(input_files')) = (n \in inputDir /\ GlobMatch(n)))]_vars
    /\ [][hpc = "dup_check" /\ hpc' # hpc =>
             (hpc' = "idle") = (hfile \in processing \cup processed)]_vars

\* C18 witness: b.nii.gz has a .processed marker, and the run for its
\* creation event is under way.
C18_Witness ==
    /\ ProcessedMarker(F2) \in outputDir
    /\ hpc = "run"
    /\ hfile = F2
    /\ cur = F2


\* The current process has finished going through its listing.
ScanOver ==
    \/ ~args.watch /\ pc \in {"returned", "exited"}
    \/ args.watch /\ pc \in {"watch_observe", "watching"}

\* C19: a file whose run was under way when the process was killed has no
\* marker, and the next process that goes through its listing, batch pass or
\* watcher, has started a new run for it.
C19_KilledFileRunAgain ==
    \A k \in 1..Len(kills) :
        /\ ~HasOutcome(kills[k].file, outputDir)
        /\ runLog[kills[k].runs].file = kills[k].file
        /\ ScanOver => \E i \in (kills[k].runs + 1)..Len(runLog) :
                          runLog[i].file = kills[k].file

\* C19 witness: the process was killed during the only run of a batch pass,
\* after the image was written; the program was started again as a watcher,
\* whose drain ran the file to the end.
C19_Witness ==
    /\ Len(kills) = 1
    /\ kills[1].file = F1
    /\ runLog[kills[1].runs] = [file |-> F1, by |-> "batch", res |-> "killed"]
    /\ args.watch
    /\ pc = "watching"
    /\ runLog[Len(runLog)] = [file |-> F1, by |-> "drain", res |-> "returned"]
    /\ writes[F1] = 3


\* C20: batch_mode, once called, returns; by then every listed file has been
\* run exactly once, in listing order, and the two counters account for all
\* of them; after the return nothing more is run.
C20_BatchTerminates ==
    /\ (pc = "batch_list") ~> (pc \in {"returned", "exited"})
    /\ [](pc \in {"returned", "exited"} /\ ~PathsMissing =>
             /\ \A i \in 1..Len(input_files) : RunsOf(input_files[i]) = {i}
             /\ Len(runLog) = Len(input_files)
             /\ \A i \in 1..Len(runLog) : runLog[i].res \in {"returned", "raised"}
             /\ success_count + fail_count = Len(input_files))
    /\ [][(pc \in {"returned", "exited"}) =>
             (runLog' = runLog /\ pc' \in {"returned", "exited"})]_vars

\* C20 witness: a pass over three files, two run with success and one
\* failed, has returned.
C20_Witness ==
    /\ ~args.watch
    /\ pc = "returned"
    /\ Len(input_files) = 3
    /\ success_count = 2
    /\ fail_count = 1


\* C21: a batch pass over an input directory in which no file has a
\* recognized name (.nii or .nii.gz) runs nothing, writes nothing, counts
\* nothing, and the process exits 0.
C21_NoRecognizedFileNoRun ==
    (/\ ~args.watch
     /\ args.config_exists /\ args.input_dir_exists
     /\ pc \in {"returned", "exited"}
     /\ {n \in inputDir : Recognized(n) /\ ~IsDir(n)} = {})
    => /\ runLog = <<>>
       /\ outputDir \in InitialMarkers
       /\ success_count = 0 /\ fail_count = 0
       /\ pc = "exited" => exitCode = "0"

\* C25: batch_mode and the drain call process_single_file only for files
\* with a recognized name (.nii or .nii.gz).
C25_ScansRunRecognizedOnly ==
    \A i \in 1..Len(runLog) :
        runLog[i].by \in {"batch", "drain"} =>
            Recognized(runLog[i].file) /\ ~IsDir(runLog[i].file)

\* C29: at the end of batch_mode over a non-empty listing the two counters
\* add up to the length of the listing, the calls of process_single_file
\* were for the listed files, one each, in listing order, and success_count
\* is the number of calls that returned.
C29_BatchAccounting ==
    BatchFinished =>
        /\ success_count + fail_count = Len(input_files)
        /\ RunFiles = input_files
        /\ \A i, j \in 1..Len(input_files) : input_files[i] = input_files[j] => i = j
        /\ success_count =
              Cardinality({i \in 1..Len(runLog) : runLog[i].res = "returned"})

\* C29 witness: a pass over b.nii.gz, c.nii.txt, a.nii, listed in that
\* order, has ended with two successes and one failure.
C29_Witness ==
    /\ BatchFinished
    /\ pc = "returned"
    /\ input_files = <<F2, F3, F1>>
    /\ success_count = 2
    /\ fail_count = 1


C27_NoLostFile ==
    (args.watch /\ pc = "watching" /\ evq = <<>> /\ hpc = "idle") =>
        \A f \in inputDir : (Recognized(f) /\ ~IsDir(f)) => RunsOf(f) # {}


\* C26: no step changes what sys.stdout refers to, so it is the same after
\* every call of process_single_file as before it, however the call ends.
C26_StdoutUnchanged == [][stdout' = stdout]_vars


\* ------------------------------------------------------------------- utils
\* Variant that looks for an empty array before it looks at the dimensions.
validate_image_data_EmptyFirst(img) ==
    IF img.size = 0 THEN "ValueError: Image data is empty"
    ELSE IF img.ndim # RequiredNdim THEN "ValueError: Expected 3D image"
    ELSE IF ~img.finite THEN "ValueError: Image contains NaN or infinite values"
    ELSE "True"

\* utils.validate_image_data: what the call returns, or the error it raises.
validate_image_data(img) ==
    IF img.ndim # RequiredNdim THEN "ValueError: Expected 3D image"
    ELSE IF img.size = 0 THEN "ValueError: Image data is empty"
    ELSE IF ~img.finite THEN "ValueError: Image contains NaN or infinite values"
    ELSE "True"

\* utils.load_nifti(filepath) in a directory holding the names dir; decodes
\* tells whether nibabel can read the file.  The result is the outcome and
\* whether nib.load was called.
load_nifti(p, dir, decodes) ==
    IF p \notin dir
    THEN [out |-> "FileNotFoundError", decoded |-> FALSE]
    ELSE IF ~LoadSuffixOk(p)
    THEN [out |-> "ValueError: Expected .nii or .nii.gz file", decoded |-> FALSE]
    ELSE [out |-> IF decodes THEN "ImageData" ELSE "DecodeError", decoded |-> TRUE]

\* What the functions of utils.py and the naming leave alone.
UtilFrame ==
    UNCHANGED <<args, mainVars, handlerVars, runVars, inputDir, size, nCreated,
                nDeleted, overlapped, kills, stdout, observer, evq, delivered>>

\* A call of validate_image_data.
ValidateImageData(img) ==
    /\ call' = [NoCall EXCEPT !.fn = "validate_image_data", !.img = img,
                              !.out = validate_image_data(img)]
    /\ UNCHANGED named
    /\ UtilFrame

\* A call of load_nifti.
LoadNifti(p) ==
    /\ \E decodes \in BOOLEAN :
          call' = [NoCall EXCEPT !.fn = "load_nifti", !.path = p,
                                !.out = load_nifti(p, inputDir, decodes).out,
                                !.decoded = load_nifti(p, inputDir, decodes).decoded]
    /\ UNCHANGED named
    /\ UtilFrame

\* process_single_file builds output_file and report_file for an input file.
ArtifactNames(f) ==
    /\ f \in inputDir
    /\ GlobMatch(f) \/ Recognized(f)
    /\ named' = named \cup {[file |-> f, output |-> OutputFile(f),
                              report |-> ReportFile(f)]}
    /\ UNCHANGED call
    /\ UtilFrame

\* The functions of utils.py and the naming of artifacts, called on any
\* image, and on any path and file of a directory that holds some of UtilNames.
InitUtils ==
    /\ args = [watch |-> FALSE, config_exists |-> TRUE, input_dir_exists |-> TRUE,
               same_dir |-> FALSE]
    /\ pc = "start"
    /\ exitCode = "running"
    /\ inputDir \in SUBSET UtilNames
    /\ size = [n \in Names |-> IF n \in inputDir THEN 1 ELSE 0]
    /\ outputDir = {}
    /\ input_files = <<>>
    /\ idx = 0
    /\ success_count = 0
    /\ fail_count = 0
    /\ cur = NoFile
    /\ stage = "none"
    /\ observer = "none"
    /\ evq = <<>>
    /\ hpc = "idle"
    /\ hfile = NoFile
    /\ slept = 0
    /\ processing = {}
    /\ processed = {}
    /\ nCreated = 0
    /\ nDeleted = 0
    /\ overlapped = {}
    /\ kills = <<>>
    /\ stdout = "console"
    /\ call = NoCall
    /\ named = {}
    /\ runLog = <<>>
    /\ writes = [n \in Names |-> 0]
    /\ delivered = <<>>
    /\ htrace = <<>>
    /\ obs = <<>>

NextUtils ==
    \/ \E img \in Images : ValidateImageData(img)
    \/ \E p \in UtilNames : LoadNifti(p)
    \/ \E f \in UtilNames : ArtifactNames(f)

SpecUtils == InitUtils /\ [][NextUtils]_vars

\* C22: when load_nifti has been called, a path that does not exist gave
\* FileNotFoundError, an existing path whose name ends in neither .nii nor
\* .nii.gz gave ValueError, and in both cases the decoder was not called.
C22_BadPathsRejected ==
    (call.fn = "load_nifti") =>
        /\ (call.path \notin inputDir) =>
               (call.out = "FileNotFoundError" /\ ~call.decoded)
        /\ (call.path \in inputDir /\ ~NiftiName(call.path)) =>
               (call.out = "ValueError: Expected .nii or .nii.gz file" /\ ~call.decoded)

\* C23: when validate_image_data has been called, it returned True exactly
\* for a 3-dimensional, non-empty image with only finite values, and otherwise
\* raised the error of the first failing check in the order dimensionality,
\* emptiness, finiteness.
C23_ValidationOrder ==
    (call.fn = "validate_image_data") =>
        /\ (call.out = "True") <=>
               (call.img.ndim = RequiredNdim /\ call.img.size # 0 /\ call.img.finite)
        /\ (call.img.ndim # RequiredNdim) =>
               call.out = "ValueError: Expected 3D image"
        /\ (call.img.ndim = RequiredNdim /\ call.img.size = 0) =>
               call.out = "ValueError: Image data is empty"
        /\ (call.img.ndim = RequiredNdim /\ call.img.size # 0 /\ ~call.img.finite) =>
               call.out = "ValueError: Image contains NaN or infinite values"

\* An empty image of the wrong dimensionality was rejected for its dimensions.
C23_Witness ==
    /\ call.fn = "validate_image_data"
    /\ call.img.ndim # RequiredNdim
    /\ call.img.size = 0
    /\ call.out = "ValueError: Expected 3D image"

\* C30: two distinct input files with recognized names never get the same
\* extracted-image name or the same report name.
C30_ArtifactNamesInjective ==
    \A x \in named : \A y \in named :
        (x.file # y.file /\ Recognized(x.file) /\ Recognized(y.file)) =>
            (x.output # y.output /\ x.report # y.report)


\* ------------------------------------------- output directory = input directory
\* Longest chain of artifacts of artifacts that is followed.
MaxChain == 2

RECURSIVE Derived(_, _)
\* The names of S and the artifacts of up to k successive runs on them.
Derived(S, k) ==
    IF k = 0 THEN S
    ELSE Derived(S \cup {OutputFile(n) : n \in S} \cup {ReportFile(n) : n \in S}, k - 1)

\* The entries the shared directory may come to hold.
SameDirNames == Derived(Names, MaxChain)

\* The entries of the directory that a run wrote.
Artifacts == SameDirNames \ Names

\* The watcher started with --output-dir naming the input directory.
InitSameDir ==
    /\ args = [watch |-> TRUE, config_exists |-> TRUE, input_dir_exists |-> TRUE,
               same_dir |-> TRUE]
    /\ pc = "start"
    /\ exitCode = "running"
    /\ inputDir \in {{}, {F1}}
    /\ size = [n \in SameDirNames |-> IF n \in inputDir THEN 1 ELSE 0]
    /\ outputDir = {}
    /\ input_files = <<>>
    /\ idx = 0
    /\ success_count = 0
    /\ fail_count = 0
    /\ cur = NoFile
    /\ stage = "none"
    /\ observer = "none"
    /\ evq = <<>>
    /\ hpc = "idle"
    /\ hfile = NoFile
    /\ slept = 0
    /\ processing = {}
    /\ processed = {}
    /\ nCreated = 0
    /\ nDeleted = 0
    /\ overlapped = {}
    /\ kills = <<>>
    /\ stdout = "console"
    /\ call = NoCall
    /\ named = {}
    /\ runLog = <<>>
    /\ writes = [n \in SameDirNames |-> 0]
    /\ delivered = <<>>
    /\ htrace = <<>>
    /\ obs = <<>>

NextSameDir ==
    \/ MainStep \/ WatchStep \/ HandlerStep \/ PipelineStep
    \/ \E n \in {F1, F2} : CreateFile(n)

SpecSameDir == InitSameDir /\ [][NextSameDir]_vars

\* C28: no run is for a file that a run wrote, and the number of runs is at
\* most the number of files put into the input directory from outside: those
\* present now that no run wrote, and one for each creation.
C28_NoSelfTriggering ==
    /\ \A i \in 1..Len(runLog) : runLog[i].file \notin Artifacts
    /\ Len(runLog) <= Cardinality(inputDir \ Artifacts) + nCreated

=============================================================================
